---- MODULE Spec2Model ----
(***************************************************************************)
(* Cash-base allocation of cierre-caja-api.                                *)
(*                                                                         *)
(* KnapsackSolver.resolver (app/services/knapsack_solver.py) splits the    *)
(* counted coins and bills into a till base of at most `objetivo` and a    *)
(* deposit, by a bounded-knapsack DP over binary-decomposed batches with a *)
(* prev[] table for reconstruction.  The model follows the code statement  *)
(* by statement; denominations, counts and the target are scaled down to   *)
(* small integers.                                                         *)
(***************************************************************************)
EXTENDS Integers, Sequences, FiniteSets, TLC

\* ------------------------------------------------------------------ bounds
\* Largest count of one denomination in an inventory.
MaxCount == 3
\* Largest target (objetivo) a solver is built with.
MaxObjetivo == 8
\* Number of resolver invocations made on one solver with one inventory.
MaxLlamadas == 3
\* Largest count handed to descomponer_binario on its own.
MaxCantidad == 20
\* Largest amount handed to aplicar_ajustes, in units of money.
MaxMonto == 3
\* Longest list of surplus entries handed to procesar_excedentes.
MaxExcedentes == 3
\* Minutes of clock the login requests are followed for.
MaxTiempo == 17

\* The denominations an inventory may hold (the production ones are
\* 50 .. 100000; the algorithm only multiplies, adds and compares them).
Denoms == {1, 2, 3}

\* Config.DENOMINACIONES_MONEDAS and Config.DENOMINACIONES_BILLETES, the
\* lists a CashCalculator is configured with, scaled like Denoms.
DENOMINACIONES_MONEDAS == <<1>>

DENOMINACIONES_BILLETES == <<2, 3>>

\* self.NEG: the "impossible" sentinel of the dp table.  The code uses
\* -10**18; any value below every reachable dp entry (all are >= 0) behaves
\* the same, and this one fits the checker's integers.
NEG == -1000000

\* Python's None in the prev table.
None == <<>>

VARIABLES
    objetivo,          \* self.objetivo
    umbral_menudo,     \* self.umbral_menudo
    todas_denoms,      \* the caller's dict, as a sequence of <<denom, cnt>>
    pc,                \* position of the current invocation of resolver
    items,             \* resolver's local list of batch items
    idx,               \* index into items of the next item of the DP loop
    dp,                \* resolver's local dp table
    prev,              \* resolver's local prev table
    conteo_base,       \* returned: dict denom -> count kept as base
    conteo_consignar,  \* returned: dict denom -> count to deposit
    restante,          \* returned: shortfall
    exacto,            \* returned: exactness flag
    base_info,         \* the dict calcular_base_y_consignacion returns
    llamadas,          \* number of invocations started so far
    primera,           \* the value returned by the first invocation
    hilos,             \* concurrent invocations: thread -> its locals
    tablas,            \* concurrent invocations: slot -> <<dp, prev>>
    entrada,           \* the arguments of a call of a pure function
    salida,            \* what that call returned
    failed_attempts,   \* auth.failed_attempts: email -> failed logins
    locked_until,      \* auth.locked_until: email -> end of the lock
    ahora,             \* datetime.utcnow(), in minutes
    peticiones         \* login requests: client -> the one it has in hand

\* The variables of one solver invoked sequentially, those of the
\* concurrent invocations and those of a single call of a pure function.
varsResolver == <<objetivo, umbral_menudo, todas_denoms, pc, items, idx, dp, prev,
                  conteo_base, conteo_consignar, restante, exacto, base_info,
                  llamadas, primera>>

varsHilos == <<hilos, tablas>>

varsLlamada == <<entrada, salida>>

varsLogin == <<failed_attempts, locked_until, ahora, peticiones>>

vars == <<varsResolver, varsHilos, varsLlamada, varsLogin>>

\* The login module as loaded, with no request made.
LoginEnReposo ==
    /\ failed_attempts = <<>>
    /\ locked_until = <<>>
    /\ ahora = 0
    /\ peticiones = <<>>

\* ------------------------------------------------------------ dict helpers
\* The keys of a dict held as a sequence of <<key, value>> pairs.
Keys(td) == {td[i][1] : i \in 1..Len(td)}

\* td[d] for a key d of the dict.
Lookup(td, d) == LET i == CHOOSE j \in 1..Len(td) : td[j][1] = d IN td[i][2]

\* usado.get(d, 0)
Get(usado, d) == IF d \in DOMAIN usado THEN usado[d] ELSE 0

\* All dicts over distinct denominations with counts 0..MaxCount, in every
\* insertion order.
RECURSIVE Inventarios(_)
Inventarios(ds) ==
    {<<>>} \cup
    UNION {{<<<<d, c>>>> \o rest : c \in 0..MaxCount, rest \in Inventarios(ds \ {d})}
           : d \in ds}

\* ------------------------------------------------------ descomponer_binario
\* descomponer_binario without its trailing "if restante > 0" append.
RECURSIVE DescomponerSinResto(_, _, _)
DescomponerSinResto(partes, k, rest) ==
    IF k <= rest
    THEN DescomponerSinResto(Append(partes, k), 2 * k, rest - k)
    ELSE partes

\* descomponer_binario with "k *= 3" for "k *= 2".
RECURSIVE DescomponerTriple(_, _, _)
DescomponerTriple(partes, k, rest) ==
    IF k <= rest
    THEN DescomponerTriple(Append(partes, k), 3 * k, rest - k)
    ELSE IF rest > 0 THEN Append(partes, rest) ELSE partes

\* descomponer_binario with "k += 1" for "k *= 2".
RECURSIVE DescomponerLineal(_, _, _)
DescomponerLineal(partes, k, rest) ==
    IF k <= rest
    THEN DescomponerLineal(Append(partes, k), k + 1, rest - k)
    ELSE IF rest > 0 THEN Append(partes, rest) ELSE partes

\* The while loop of descomponer_binario and the trailing remainder.
RECURSIVE DescomponerLoop(_, _, _)
DescomponerLoop(partes, k, rest) ==
    IF k <= rest
    THEN DescomponerLoop(Append(partes, k), 2 * k, rest - k)
    ELSE IF rest > 0 THEN Append(partes, rest) ELSE partes

\* descomponer_binario decomposing its first argument: valor and cantidad
\* are taken in the wrong order.
DescomponerBinarioValor(valor, cantidad) == DescomponerLoop(<<>>, 1, valor)

DescomponerBinario(valor, cantidad) == DescomponerLoop(<<>>, 1, cantidad)

\* ------------------------------------------------------------------ resolver
\* The batch items of one denomination (the inner for over partes).
ItemsDe(denom, cnt, umbral) ==
    LET partes == DescomponerBinario(denom, cnt)
    IN  [i \in 1..Len(partes) |->
            [valor_total   |-> denom * partes[i],
             aporte_menudo |-> IF denom <= umbral THEN denom * partes[i] ELSE 0,
             denom         |-> denom,
             k             |-> partes[i]]]

\* The preparation loop without its "cnt <= 0" skip, taking every listed
\* denomination to hold at least one unit.
RECURSIVE PrepararItemsSinSalto(_, _, _)
PrepararItemsSinSalto(td, i, umbral) ==
    IF i > Len(td) THEN <<>>
    ELSE ItemsDe(td[i][1], IF td[i][2] <= 0 THEN 1 ELSE td[i][2], umbral)
             \o PrepararItemsSinSalto(td, i + 1, umbral)

\* The loop that prepares the items, over the dict's entries in order.
RECURSIVE PrepararItems(_, _, _)
PrepararItems(td, i, umbral) ==
    IF i > Len(td) THEN <<>>
    ELSE IF td[i][2] <= 0 THEN PrepararItems(td, i + 1, umbral)
    ELSE ItemsDe(td[i][1], td[i][2], umbral) \o PrepararItems(td, i + 1, umbral)

\* The DP loop storing prev[s] = (s - denom, denom, k): the predecessor is
\* one unit below s instead of one batch below.
RECURSIVE RecorrerSumasPrevDenom(_, _, _)
RecorrerSumasPrevDenom(t, it, s) ==
    IF s < it.valor_total THEN t
    ELSE LET d == t[1]
             p == t[2]
             cand == d[s - it.valor_total] + it.aporte_menudo
         IN  IF d[s - it.valor_total] # NEG /\ cand > d[s]
             THEN RecorrerSumasPrevDenom(
                      <<[d EXCEPT ![s] = cand],
                        [p EXCEPT ![s] = <<s - it.denom, it.denom, it.k>>]>>,
                      it, s - 1)
             ELSE RecorrerSumasPrevDenom(t, it, s - 1)

\* The DP loop running s upwards from valor_total to MAX: an item already
\* added at a lower sum is added again.
RECURSIVE RecorrerHaciaArriba(_, _, _, _)
RecorrerHaciaArriba(t, it, s, max) ==
    IF s > max THEN t
    ELSE LET d == t[1]
             p == t[2]
             cand == d[s - it.valor_total] + it.aporte_menudo
         IN  IF d[s - it.valor_total] # NEG /\ cand > d[s]
             THEN RecorrerHaciaArriba(
                      <<[d EXCEPT ![s] = cand],
                        [p EXCEPT ![s] = <<s - it.valor_total, it.denom, it.k>>]>>,
                      it, s + 1, max)
             ELSE RecorrerHaciaArriba(t, it, s + 1, max)

RecorrerSumasAscendente(t, it, s) == RecorrerHaciaArriba(t, it, it.valor_total, s)

\* The DP loop updating only sums not reached before ("dp[s] == NEG" for
\* "cand > dp[s]"): the first way found to reach a sum is kept, whatever
\* its menudo.
RECURSIVE RecorrerSumasPrimero(_, _, _)
RecorrerSumasPrimero(t, it, s) ==
    IF s < it.valor_total THEN t
    ELSE LET d == t[1]
             p == t[2]
             cand == d[s - it.valor_total] + it.aporte_menudo
         IN  IF d[s - it.valor_total] # NEG /\ d[s] = NEG
             THEN RecorrerSumasPrimero(
                      <<[d EXCEPT ![s] = cand],
                        [p EXCEPT ![s] = <<s - it.valor_total, it.denom, it.k>>]>>,
                      it, s - 1)
             ELSE RecorrerSumasPrimero(t, it, s - 1)

\* The inner loop of the DP for one item: s from MAX down to valor_total,
\* updating dp and prev in place.  t = <<dp, prev>>.
RECURSIVE RecorrerSumas(_, _, _)
RecorrerSumas(t, it, s) ==
    IF s < it.valor_total THEN t
    ELSE LET d == t[1]
             p == t[2]
             cand == d[s - it.valor_total] + it.aporte_menudo
         IN  IF d[s - it.valor_total] # NEG /\ cand > d[s]
             THEN RecorrerSumas(
                      <<[d EXCEPT ![s] = cand],
                        [p EXCEPT ![s] = <<s - it.valor_total, it.denom, it.k>>]>>,
                      it, s - 1)
             ELSE RecorrerSumas(t, it, s - 1)

\* _reconstruir_solucion overwriting usado[denom] = k instead of adding k.
RECURSIVE ReconstruirLoopSobrescribe(_, _, _)
ReconstruirLoopSobrescribe(p, s, usado) ==
    IF s > 0 /\ p[s] # None
    THEN LET entry == p[s]
             denom == entry[2]
             nuevo == [d \in DOMAIN usado \cup {denom} |->
                          IF d = denom THEN entry[3] ELSE usado[d]]
         IN  ReconstruirLoopSobrescribe(p, entry[1], nuevo)
    ELSE usado

\* _reconstruir_solucion: walk prev from suma_final, accumulating usado.
RECURSIVE ReconstruirLoop(_, _, _)
ReconstruirLoop(p, s, usado) ==
    IF s > 0 /\ p[s] # None
    THEN LET entry == p[s]
             denom == entry[2]
             nuevo == [d \in DOMAIN usado \cup {denom} |->
                          IF d = denom THEN Get(usado, d) + entry[3] ELSE usado[d]]
         IN  ReconstruirLoop(p, entry[1], nuevo)
    ELSE usado

ReconstruirSolucion(p, suma_final) == ReconstruirLoop(p, suma_final, <<>>)

\* {d: usado.get(d, 0) for d in todas_denoms}
ConteoBase(td, usado) == [d \in Keys(td) |-> Get(usado, d)]

\* conteo_consignar = dict(todas_denoms): the base is not subtracted.
ConteoConsignarSinRestar(td, base) == [d \in Keys(td) |-> Lookup(td, d)]

\* {d: todas_denoms[d] - conteo_base[d] for d in todas_denoms}
ConteoConsignar(td, base) == [d \in Keys(td) |-> Lookup(td, d) - base[d]]

\* The scan for the closest sum running upwards from 0: it stops at the
\* smallest reachable sum.
MejorSAscendente(d, s) ==
    IF \E x \in 0..s : d[x] # NEG
    THEN CHOOSE x \in 0..s : d[x] # NEG /\ \A y \in 0..(x - 1) : d[y] = NEG
    ELSE -1

\* The scan for the closest reachable sum: s from MAX down to 0, -1 if none.
RECURSIVE MejorS(_, _)
MejorS(d, s) ==
    IF s < 0 THEN -1
    ELSE IF d[s] # NEG THEN s ELSE MejorS(d, s - 1)

\* resolver testing "dp[MAX] > 0" for the exact case: an exact sum with no
\* menudo in it is taken for unreachable.
ResultadoMenudoPositivo(td, obj, d, p) ==
    IF d[obj] > 0
    THEN LET base == ConteoBase(td, ReconstruirSolucion(p, obj))
         IN  [conteo_base |-> base, conteo_consignar |-> ConteoConsignar(td, base),
              restante |-> 0, exacto |-> TRUE]
    ELSE LET mejor_s == MejorS(d, obj)
             base == ConteoBase(td, ReconstruirSolucion(p, mejor_s))
         IN  [conteo_base |-> base, conteo_consignar |-> ConteoConsignar(td, base),
              restante |-> obj - mejor_s, exacto |-> FALSE]

\* The returned tuple of resolver, from the final tables.
Resultado(td, obj, d, p) ==
    IF d[obj] # NEG
    THEN LET base == ConteoBase(td, ReconstruirSolucion(p, obj))
         IN  [conteo_base |-> base, conteo_consignar |-> ConteoConsignar(td, base),
              restante |-> 0, exacto |-> TRUE]
    ELSE LET mejor_s == MejorS(d, obj)
         IN  IF mejor_s = -1
             THEN [conteo_base |-> [k \in Keys(td) |-> 0],
                   conteo_consignar |-> [k \in Keys(td) |-> Lookup(td, k)],
                   restante |-> obj, exacto |-> FALSE]
             ELSE LET base == ConteoBase(td, ReconstruirSolucion(p, mejor_s))
                  IN  [conteo_base |-> base,
                       conteo_consignar |-> ConteoConsignar(td, base),
                       restante |-> obj - mejor_s, exacto |-> FALSE]

\* dp = [NEG] * MAX: one entry short, so dp[MAX] is out of range.
DpInicialCorta(obj) == [s \in 0..(obj - 1) |-> IF s = 0 THEN 0 ELSE NEG]

\* dp = [NEG] * (MAX + 1) without the "dp[0] = 0" that follows it.
DpInicialSinCero(obj) == [s \in 0..obj |-> NEG]

\* dp = [0] * (MAX + 1): every sum starts out as reached.
DpInicialCeros(obj) == [s \in 0..obj |-> 0]

\* The dp table kept from the previous invocation instead of a fresh one.
DpReutilizada(obj) ==
    IF dp = <<>> THEN [s \in 0..obj |-> IF s = 0 THEN 0 ELSE NEG] ELSE dp

\* dp = [NEG] * (MAX + 1); dp[0] = 0
DpInicial(obj) == [s \in 0..obj |-> IF s = 0 THEN 0 ELSE NEG]

\* prev = [None] * (MAX + 1)
PrevInicial(obj) == [s \in 0..obj |-> None]

\* ------------------------------------------------------------ CashCalculator
\* sum(d * c for d, c in todas_denoms.items())
RECURSIVE TotalDesde(_, _)
TotalDesde(td, i) ==
    IF i > Len(td) THEN 0 ELSE td[i][1] * td[i][2] + TotalDesde(td, i + 1)

TotalGeneral(td) == TotalDesde(td, 1)

\* {d: conteo.get(d, 0) for d in denominaciones}, as a dict in list order.
Separar(conteo, denominaciones) ==
    [i \in 1..Len(denominaciones) |->
        <<denominaciones[i], Get(conteo, denominaciones[i])>>]

\* Lines 98-156 of calcular_base_y_consignacion: the solver's tuple split
\* into coins and bills, the totals and the base status.
BaseInfo(td, base_objetivo, base, consignar, restante_base, ex) ==
    LET total_general_disponible == TotalGeneral(td)
        base_monedas == Separar(base, DENOMINACIONES_MONEDAS)
        base_billetes == Separar(base, DENOMINACIONES_BILLETES)
        consignar_monedas == Separar(consignar, DENOMINACIONES_MONEDAS)
        consignar_billetes == Separar(consignar, DENOMINACIONES_BILLETES)
        total_base_monedas == TotalGeneral(base_monedas)
        total_base_billetes == TotalGeneral(base_billetes)
    IN  [base_monedas |-> base_monedas,
         base_billetes |-> base_billetes,
         total_base_monedas |-> total_base_monedas,
         total_base_billetes |-> total_base_billetes,
         total_base |-> total_base_monedas + total_base_billetes,
         exact_base_obtained |-> ex,
         restante_para_base |-> restante_base,
         base_status |->
             IF total_general_disponible = base_objetivo THEN "exacta"
             ELSE IF total_general_disponible < base_objetivo THEN "faltante"
             ELSE "sobrante",
         diferencia_base |->
             IF total_general_disponible = base_objetivo THEN 0
             ELSE IF total_general_disponible < base_objetivo
                  THEN -(base_objetivo - total_general_disponible)
             ELSE total_general_disponible - base_objetivo,
         consignar_monedas |-> consignar_monedas,
         consignar_billetes |-> consignar_billetes,
         total_consignar_sin_ajustes |->
             TotalGeneral(consignar_monedas) + TotalGeneral(consignar_billetes)]

\* ------------------------------------------------------------------ actions
\* A solver built by KnapsackSolver(objetivo, umbral_menudo) and the
\* inventory its caller holds; nothing has been invoked yet.
Init ==
    /\ objetivo \in 0..MaxObjetivo
    /\ umbral_menudo \in {0} \cup Denoms
    /\ todas_denoms \in Inventarios(Denoms)
    /\ pc = "idle"
    /\ items = <<>>
    /\ idx = 1
    /\ dp = <<>>
    /\ prev = <<>>
    /\ conteo_base = <<>>
    /\ conteo_consignar = <<>>
    /\ restante = 0
    /\ exacto = FALSE
    /\ base_info = None
    /\ llamadas = 0
    /\ primera = None
    /\ hilos = <<>>
    /\ tablas = <<>>
    /\ entrada = None
    /\ salida = None
    /\ LoginEnReposo

\* resolver is entered: the tables are allocated and the items prepared.
ResolverBegin ==
    /\ pc \in {"idle", "done", "cierre"}
    /\ llamadas < MaxLlamadas
    /\ llamadas' = llamadas + 1
    /\ dp' = DpInicial(objetivo)
    /\ prev' = PrevInicial(objetivo)
    /\ items' = PrepararItems(todas_denoms, 1, umbral_menudo)
    /\ idx' = 1
    /\ pc' = "dp"
    /\ UNCHANGED <<objetivo, umbral_menudo, todas_denoms, conteo_base,
                   conteo_consignar, restante, exacto, base_info, primera>>
    /\ UNCHANGED <<varsHilos, varsLlamada, varsLogin>>

\* One iteration of the DP loop over items.
ResolverItem ==
    /\ pc = "dp"
    /\ idx <= Len(items)
    /\ LET t == RecorrerSumas(<<dp, prev>>, items[idx], objetivo)
       IN  /\ dp' = t[1]
           /\ prev' = t[2]
    /\ idx' = idx + 1
    /\ UNCHANGED <<objetivo, umbral_menudo, todas_denoms, pc, items, conteo_base,
                   conteo_consignar, restante, exacto, base_info, llamadas,
                   primera>>
    /\ UNCHANGED <<varsHilos, varsLlamada, varsLogin>>

\* The return of resolver with conteo_consignar aliasing the caller's dict
\* (no dict() copy) and the base subtracted from it in place.
ResolverEndSinCopia ==
    /\ pc = "dp"
    /\ idx > Len(items)
    /\ LET r == Resultado(todas_denoms, objetivo, dp, prev)
       IN  /\ conteo_base' = r.conteo_base
           /\ conteo_consignar' = r.conteo_consignar
           /\ restante' = r.restante
           /\ exacto' = r.exacto
           /\ primera' = IF primera = None THEN r ELSE primera
           /\ todas_denoms' =
                  [i \in 1..Len(todas_denoms) |->
                      <<todas_denoms[i][1], r.conteo_consignar[todas_denoms[i][1]]>>]
    /\ pc' = "done"
    /\ UNCHANGED <<objetivo, umbral_menudo, items, idx, dp, prev, base_info,
                   llamadas>>
    /\ UNCHANGED <<varsHilos, varsLlamada, varsLogin>>

\* The loop is over: the result is reconstructed and returned.
ResolverEnd ==
    /\ pc = "dp"
    /\ idx > Len(items)
    /\ LET r == Resultado(todas_denoms, objetivo, dp, prev)
       IN  /\ conteo_base' = r.conteo_base
           /\ conteo_consignar' = r.conteo_consignar
           /\ restante' = r.restante
           /\ exacto' = r.exacto
           /\ primera' = IF primera = None THEN r ELSE primera
    /\ pc' = "done"
    /\ UNCHANGED <<objetivo, umbral_menudo, todas_denoms, items, idx, dp, prev,
                   base_info, llamadas>>
    /\ UNCHANGED <<varsHilos, varsLlamada, varsLogin>>

\* The caller was CashCalculator.calcular_base_y_consignacion (its solver is
\* built with base_objetivo and umbral_menudo, which __init__ never leaves
\* at 0): the rest of it, from the returned tuple to the result dict.
CalcularBaseYConsignacion ==
    /\ pc = "done"
    /\ objetivo > 0
    /\ umbral_menudo > 0
    /\ base_info' = BaseInfo(todas_denoms, objetivo, conteo_base, conteo_consignar,
                             restante, exacto)
    /\ pc' = "cierre"
    /\ UNCHANGED <<objetivo, umbral_menudo, todas_denoms, items, idx, dp, prev,
                   conteo_base, conteo_consignar, restante, exacto, llamadas,
                   primera>>
    /\ UNCHANGED <<varsHilos, varsLlamada, varsLogin>>

Next == ResolverBegin \/ ResolverItem \/ ResolverEnd \/ CalcularBaseYConsignacion

Spec == Init /\ [][Next]_vars

\* ---------------------------------------------------- concurrent invocations
\* Two requests served at once, each invoking resolver on a solver built
\* with the same objetivo and umbral_menudo.
Hilos == {"a", "b"}

\* The denominations of the inventories of the concurrent invocations.
DenomsHilos == {1, 2}

\* One dp and one prev kept on the solver and used by every invocation.
TablaCompartida(h) == "a"

\* The tables of invocation h are its own: dp and prev are locals created
\* inside the call.
Tabla(h) == h

\* Two invocations about to start: the first on any inventory over
\* DenomsHilos, the second on any inventory of at most one denomination.
InitHilos ==
    /\ objetivo \in 0..MaxObjetivo
    /\ umbral_menudo \in {0} \cup DenomsHilos
    /\ \E ta \in Inventarios(DenomsHilos) :
       \E tb \in {t \in Inventarios(DenomsHilos) : Len(t) <= 1} :
           hilos = [h \in Hilos |->
                       [todas_denoms |-> IF h = "a" THEN ta ELSE tb,
                        pc |-> "idle", items |-> <<>>, idx |-> 1,
                        solapada |-> FALSE, resultado |-> None]]
    /\ tablas = [h \in Hilos |-> [dp |-> <<>>, prev |-> <<>>]]
    /\ todas_denoms = <<>>
    /\ pc = "idle"
    /\ items = <<>>
    /\ idx = 1
    /\ dp = <<>>
    /\ prev = <<>>
    /\ conteo_base = <<>>
    /\ conteo_consignar = <<>>
    /\ restante = 0
    /\ exacto = FALSE
    /\ base_info = None
    /\ llamadas = 0
    /\ primera = None
    /\ entrada = None
    /\ salida = None
    /\ LoginEnReposo

\* Invocation h enters resolver: its tables are allocated, its items prepared.
Entrar(h) ==
    /\ hilos[h].pc = "idle"
    /\ tablas' = [tablas EXCEPT ![Tabla(h)] =
                     [dp |-> DpInicial(objetivo), prev |-> PrevInicial(objetivo)]]
    /\ hilos' = [hilos EXCEPT
                    ![h].pc = "dp",
                    ![h].items = PrepararItems(hilos[h].todas_denoms, 1, umbral_menudo),
                    ![h].idx = 1]
    /\ UNCHANGED <<varsResolver, varsLlamada, varsLogin>>

\* Invocation h runs one iteration of its DP loop over items.
Paso(h) ==
    /\ hilos[h].pc = "dp"
    /\ hilos[h].idx <= Len(hilos[h].items)
    /\ LET mia == tablas[Tabla(h)]
           t == RecorrerSumas(<<mia.dp, mia.prev>>, hilos[h].items[hilos[h].idx],
                              objetivo)
       IN  tablas' = [tablas EXCEPT ![Tabla(h)] = [dp |-> t[1], prev |-> t[2]]]
    /\ hilos' = [hilos EXCEPT
                    ![h].idx = @ + 1,
                    ![h].solapada = @ \/ \E o \in Hilos \ {h} : hilos[o].pc = "dp"]
    /\ UNCHANGED <<varsResolver, varsLlamada, varsLogin>>

\* Invocation h reconstructs its result and returns.
Salir(h) ==
    /\ hilos[h].pc = "dp"
    /\ hilos[h].idx > Len(hilos[h].items)
    /\ LET mia == tablas[Tabla(h)]
       IN  hilos' = [hilos EXCEPT
                        ![h].pc = "done",
                        ![h].resultado =
                            Resultado(hilos[h].todas_denoms, objetivo, mia.dp, mia.prev)]
    /\ UNCHANGED <<varsResolver, varsLlamada, varsLogin, tablas>>

NextHilos == \E h \in Hilos : Entrar(h) \/ Paso(h) \/ Salir(h)

SpecHilos == InitHilos /\ [][NextHilos]_vars

\* ------------------------------------------------- calls of a pure function
\* Every variable of the solver and of the concurrent invocations at rest:
\* the specifications below exercise one function on its own.
EnReposo ==
    /\ objetivo = 0
    /\ umbral_menudo = 0
    /\ todas_denoms = <<>>
    /\ pc = "idle"
    /\ items = <<>>
    /\ idx = 1
    /\ dp = <<>>
    /\ prev = <<>>
    /\ conteo_base = <<>>
    /\ conteo_consignar = <<>>
    /\ restante = 0
    /\ exacto = FALSE
    /\ base_info = None
    /\ llamadas = 0
    /\ primera = None
    /\ hilos = <<>>
    /\ tablas = <<>>

\* KnapsackSolver.descomponer_binario(valor, cantidad) is about to be called.
InitDescomponer ==
    /\ EnReposo
    /\ entrada \in [valor : Denoms, cantidad : 0..MaxCantidad]
    /\ salida = None
    /\ LoginEnReposo

\* The call returns its list; salida holds the returned value in a 1-tuple.
Descomponer ==
    /\ salida = None
    /\ salida' = <<DescomponerBinario(entrada.valor, entrada.cantidad)>>
    /\ UNCHANGED <<varsResolver, varsHilos, varsLogin, entrada>>

SpecDescomponer == InitDescomponer /\ [][Descomponer]_vars

\* CashCalculator.aplicar_ajustes: only prestamos is subtracted; excedente
\* and gastos_operativos are read for the log line alone.
AplicarAjustes(total, excedente, gastos_operativos, prestamos) ==
    total - prestamos

\* aplicar_ajustes is about to be called with four amounts.
InitAjustes ==
    /\ EnReposo
    /\ entrada \in [total_consignar_sin_ajustes : 0..MaxMonto,
                    excedente : 0..MaxMonto,
                    gastos_operativos : 0..MaxMonto,
                    prestamos : 0..MaxMonto]
    /\ salida = None
    /\ LoginEnReposo

\* The call returns its amount; salida holds the returned value in a 1-tuple.
Ajustar ==
    /\ salida = None
    /\ salida' = <<AplicarAjustes(entrada.total_consignar_sin_ajustes,
                                  entrada.excedente,
                                  entrada.gastos_operativos,
                                  entrada.prestamos)>>
    /\ UNCHANGED <<varsResolver, varsHilos, varsLogin, entrada>>

SpecAjustes == InitAjustes /\ [][Ajustar]_vars

\* --------------------------------------------------------------- properties
\* resolver has returned (and possibly the calculator has finished too).
Terminado == pc \in {"done", "cierre"}

\* sum(d * f[d]) over the denominations d of S.
RECURSIVE ValorEn(_, _)
ValorEn(f, S) ==
    IF S = {} THEN 0
    ELSE LET d == CHOOSE x \in S : TRUE IN d * f[d] + ValorEn(f, S \ {d})

\* The value of an allocation, and the part of it in denominations <= umbral.
Valor(f) == ValorEn(f, DOMAIN f)

ValorMenudo(f, umbral) == ValorEn(f, {d \in DOMAIN f : d <= umbral})

\* The allocations within the counts of the inventory td.
Factibles(td) ==
    {x \in [Keys(td) -> 0..MaxCount] : \A d \in Keys(td) : x[d] <= Lookup(td, d)}

\* Some sub-multiset of td sums to s.
Alcanzable(td, s) == \E x \in Factibles(td) : Valor(x) = s

\* The largest sum <= obj some sub-multiset of td reaches (0 always is one).
MaxAlcanzable(td, obj) ==
    CHOOSE s \in 0..obj :
        Alcanzable(td, s) /\ \A t \in (s + 1)..obj : ~Alcanzable(td, t)

\* The tuple resolver returned.
Devuelto ==
    [conteo_base |-> conteo_base, conteo_consignar |-> conteo_consignar,
     restante |-> restante, exacto |-> exacto]

\* C1: conservation -- for every denomination d of the input,
\* conteo_base[d] + conteo_consignar[d] = todas_denoms[d].
C1_Conservacion ==
    Terminado =>
        \A d \in Keys(todas_denoms) :
            conteo_base[d] + conteo_consignar[d] = Lookup(todas_denoms, d)

C1_Witness ==
    /\ Terminado
    /\ \E d \in Keys(todas_denoms) : conteo_base[d] > 0 /\ conteo_consignar[d] > 0

\* C2: both returned maps have exactly the input's keys and, for every
\* denomination d, 0 <= conteo_base[d] <= todas_denoms[d] and
\* 0 <= conteo_consignar[d] <= todas_denoms[d].
C2_DentroDelConteo ==
    Terminado =>
        /\ DOMAIN conteo_base = Keys(todas_denoms)
        /\ DOMAIN conteo_consignar = Keys(todas_denoms)
        /\ \A d \in Keys(todas_denoms) :
              /\ 0 <= conteo_base[d]
              /\ conteo_base[d] <= Lookup(todas_denoms, d)
              /\ 0 <= conteo_consignar[d]
              /\ conteo_consignar[d] <= Lookup(todas_denoms, d)

\* C3: the value of the returned base is at most the target, and so is
\* total_base of the calculator's result.
C3_NoExcede ==
    /\ Terminado => Valor(conteo_base) <= objetivo
    /\ pc = "cierre" => base_info.total_base <= objetivo

C3_Witness ==
    /\ pc = "cierre"
    /\ TotalGeneral(todas_denoms) > objetivo
    /\ base_info.total_base > 0
    /\ base_info.total_base < objetivo

\* C4: exacto is true if and only if the value of the returned base equals
\* the target.
C4_ExactoSii ==
    Terminado => (exacto <=> Valor(conteo_base) = objetivo)

C4_Witness ==
    /\ Terminado
    /\ exacto
    /\ objetivo > 0
    /\ Cardinality({d \in Keys(todas_denoms) : conteo_base[d] > 0}) >= 2

\* C5: restante is non-negative and equals the target minus the value of the
\* returned base.
C5_Restante ==
    Terminado =>
        /\ restante >= 0
        /\ restante = objetivo - Valor(conteo_base)

C5_Witness ==
    /\ Terminado
    /\ restante > 0
    /\ Valor(conteo_base) > 0
    /\ TotalGeneral(todas_denoms) > objetivo

\* C6: resolver returns exacto with restante = 0 if and only if some
\* sub-multiset of the inventory sums to the target.
C6_ExactoSiFactible ==
    Terminado =>
        ((exacto /\ restante = 0) <=> Alcanzable(todas_denoms, objetivo))

C6_Witness ==
    /\ Terminado
    /\ exacto
    /\ restante = 0
    /\ \E d \in Keys(todas_denoms) : conteo_base[d] = 3

\* C7: when no sub-multiset sums to the target, target - restante is the
\* largest sum <= target that some sub-multiset reaches.
C7_MasCercano ==
    (Terminado /\ ~Alcanzable(todas_denoms, objetivo)) =>
        objetivo - restante = MaxAlcanzable(todas_denoms, objetivo)

C7_Witness ==
    /\ Terminado
    /\ ~Alcanzable(todas_denoms, objetivo)
    /\ TotalGeneral(todas_denoms) > objetivo
    /\ restante > 0
    /\ restante < objetivo

\* C8: the returned base is a feasible allocation and no feasible allocation
\* of the same value has a higher value in denominations <= umbral_menudo.
C8_MenudoOptimo ==
    Terminado =>
        /\ conteo_base \in Factibles(todas_denoms)
        /\ \A x \in Factibles(todas_denoms) :
              Valor(x) = Valor(conteo_base) =>
                  ValorMenudo(x, umbral_menudo) <= ValorMenudo(conteo_base, umbral_menudo)

C10_Insuficiente ==
    (Terminado /\ TotalGeneral(todas_denoms) < objetivo) =>
        /\ ~exacto
        /\ restante = objetivo - TotalGeneral(todas_denoms)
        /\ \A d \in Keys(todas_denoms) :
              /\ conteo_base[d] = Lookup(todas_denoms, d)
              /\ conteo_consignar[d] = 0

\* C11: with target 0, conteo_base is all 0, conteo_consignar equals the
\* input, restante is 0 and exacto is true.
C11_ObjetivoCero ==
    (Terminado /\ objetivo = 0) =>
        /\ \A d \in Keys(todas_denoms) :
              /\ conteo_base[d] = 0
              /\ conteo_consignar[d] = Lookup(todas_denoms, d)
        /\ DOMAIN conteo_base = Keys(todas_denoms)
        /\ DOMAIN conteo_consignar = Keys(todas_denoms)
        /\ restante = 0
        /\ exacto

C11_Witness ==
    /\ Terminado
    /\ objetivo = 0
    /\ TotalGeneral(todas_denoms) > 0

\* C12: for an empty inventory or one whose counts are all 0, and a target
\* > 0, resolver returns an all-zero conteo_base, conteo_consignar equal to
\* the input, restante = target and exacto false.
C12_SinEfectivo ==
    (/\ Terminado
     /\ objetivo > 0
     /\ \A i \in 1..Len(todas_denoms) : todas_denoms[i][2] = 0) =>
        /\ DOMAIN conteo_base = Keys(todas_denoms)
        /\ DOMAIN conteo_consignar = Keys(todas_denoms)
        /\ \A d \in Keys(todas_denoms) :
              /\ conteo_base[d] = 0
              /\ conteo_consignar[d] = Lookup(todas_denoms, d)
        /\ restante = objetivo
        /\ ~exacto

C12_Witness ==
    /\ Terminado
    /\ objetivo > 0
    /\ Len(todas_denoms) >= 2
    /\ \A i \in 1..Len(todas_denoms) : todas_denoms[i][2] = 0

\* C13: a denomination present with count 0 generates no batch item and has
\* conteo_base = 0 and conteo_consignar = 0 in the result.
C13_ConteoCero ==
    \A i \in 1..Len(todas_denoms) :
        todas_denoms[i][2] = 0 =>
            /\ pc # "idle" =>
                  \A j \in 1..Len(items) : items[j].denom # todas_denoms[i][1]
            /\ Terminado =>
                  /\ todas_denoms[i][1] \in DOMAIN conteo_base
                  /\ todas_denoms[i][1] \in DOMAIN conteo_consignar
                  /\ conteo_base[todas_denoms[i][1]] = 0
                  /\ conteo_consignar[todas_denoms[i][1]] = 0

C13_Witness ==
    /\ Terminado
    /\ \E i \in 1..Len(todas_denoms) : todas_denoms[i][2] = 0
    /\ Valor(conteo_base) > 0
    /\ Len(items) >= 2

\* C14: for a single-denomination inventory {d: c}, conteo_base[d] is
\* min(c, target \div d), restante is target - d * conteo_base[d], and exacto
\* holds exactly when d divides target and target \div d <= c.
C14_UnaDenominacion ==
    (Terminado /\ Len(todas_denoms) = 1) =>
        LET d == todas_denoms[1][1]
            c == todas_denoms[1][2]
            q == objetivo \div d
        IN  /\ conteo_base[d] = (IF c <= q THEN c ELSE q)
            /\ restante = objetivo - d * conteo_base[d]
            /\ exacto <=> (objetivo % d = 0 /\ q <= c)

C14_Witness ==
    /\ Terminado
    /\ Len(todas_denoms) = 1
    /\ todas_denoms[1][2] = 3
    /\ conteo_base[todas_denoms[1][1]] = 2
    /\ restante > 0

\* C15: resolver runs to its return without an index or key error.  Every
\* index the loops and the walk use lies inside the tables (dp and prev span
\* 0..MAX, every item is worth at least 1, every prev entry points to a
\* lower index and names a key of the input), the loop index is an item or
\* one past the last, and what it returns is a well-formed 4-tuple.
C15_Totalidad ==
    /\ pc # "idle" =>
          /\ DOMAIN dp = 0..objetivo
          /\ DOMAIN prev = 0..objetivo
          /\ \A j \in 1..Len(items) :
                items[j].valor_total >= 1 /\ items[j].denom \in Keys(todas_denoms)
          /\ \A s \in DOMAIN prev :
                prev[s] # None =>
                    /\ prev[s][1] \in 0..(s - 1)
                    /\ prev[s][2] \in Keys(todas_denoms)
                    /\ dp[s] # NEG
          /\ \A s \in DOMAIN dp : (s > 0 /\ dp[s] # NEG) => prev[s] # None
    /\ pc = "dp" => idx \in 1..(Len(items) + 1)
    /\ Terminado =>
          /\ DOMAIN conteo_base = Keys(todas_denoms)
          /\ DOMAIN conteo_consignar = Keys(todas_denoms)
          /\ \A d \in Keys(todas_denoms) :
                conteo_base[d] \in Int /\ conteo_consignar[d] \in Int
          /\ restante \in 0..objetivo
          /\ exacto \in BOOLEAN

C15_Witness ==
    /\ Terminado
    /\ ~exacto
    /\ restante > 0
    /\ Valor(conteo_base) > 0
    /\ Len(items) >= 4

\* C16: no step of an invocation changes the caller's todas_denoms or the
\* solver's objetivo and umbral_menudo, and an invocation starts from tables
\* of its own: whatever an earlier invocation left in dp and prev, on entry
\* dp is NEG everywhere but dp[0] = 0 and prev is None everywhere.
C16_Pureza ==
    [][/\ todas_denoms' = todas_denoms
       /\ objetivo' = objetivo
       /\ umbral_menudo' = umbral_menudo
       /\ (pc # "dp" /\ pc' = "dp") =>
             /\ dp' = [s \in 0..objetivo |-> IF s = 0 THEN 0 ELSE NEG]
             /\ prev' = [s \in 0..objetivo |-> None]]_vars

C16_Witness ==
    /\ pc = "dp"
    /\ llamadas >= 2
    /\ idx = 1
    /\ Valor(conteo_base) > 0
    /\ \E d \in Keys(todas_denoms) : conteo_consignar[d] < Lookup(todas_denoms, d)

\* The DP loop over all items run without interruption, and the tuple
\* resolver returns when it runs alone.
RECURSIVE ProcesarItems(_, _, _, _)
ProcesarItems(t, its, i, obj) ==
    IF i > Len(its) THEN t
    ELSE ProcesarItems(RecorrerSumas(t, its[i], obj), its, i + 1, obj)

ResolverSolo(td, obj, umbral) ==
    LET t == ProcesarItems(<<[s \in 0..obj |-> IF s = 0 THEN 0 ELSE NEG],
                             [s \in 0..obj |-> None]>>,
                           PrepararItems(td, 1, umbral), 1, obj)
    IN  Resultado(td, obj, t[1], t[2])

\* C17: under any interleaving of the steps of two invocations, each
\* returns exactly what it returns when run alone.
C17_SinInterferencia ==
    \A h \in DOMAIN hilos :
        hilos[h].pc = "done" =>
            hilos[h].resultado =
                ResolverSolo(hilos[h].todas_denoms, objetivo, umbral_menudo)

C17_Witness ==
    /\ DOMAIN hilos = Hilos
    /\ \A h \in Hilos : hilos[h].pc = "done" /\ hilos[h].solapada
    /\ hilos["a"].todas_denoms # hilos["b"].todas_denoms
    /\ hilos["a"].resultado # hilos["b"].resultado
    /\ \A h \in Hilos : Valor(hilos[h].resultado.conteo_base) > 0

\* sum of the elements of a sequence of numbers.
RECURSIVE Suma(_)
Suma(q) == IF q = <<>> THEN 0 ELSE Head(q) + Suma(Tail(q))

\* The least m with 2^m >= n, i.e. ceil(log2(n)), for n >= 1.
CeilLog2(n) == CHOOSE m \in 0..n : 2 ^ m >= n /\ (m = 0 \/ 2 ^ (m - 1) < n)

\* C18: descomponer_binario(valor, c) returns 1, 2, 4, ..., 2^(m-1) for the
\* largest m with 2^m - 1 <= c, followed by the remainder c - (2^m - 1) when
\* it is positive; all parts are positive and sum to c; valor plays no part.
C18_Descomposicion ==
    salida # None =>
        LET c == entrada.cantidad
            partes == salida[1]
            m == CHOOSE x \in 0..c : 2 ^ x - 1 <= c /\ 2 ^ (x + 1) - 1 > c
            r == c - (2 ^ m - 1)
        IN  /\ partes = [i \in 1..m |-> 2 ^ (i - 1)]
                            \o (IF r > 0 THEN <<r>> ELSE <<>>)
            /\ \A i \in 1..Len(partes) : partes[i] > 0
            /\ Suma(partes) = c

C18_Witness ==
    /\ salida = <<<<1, 2, 4, 1>>>>
    /\ entrada.cantidad = 8
    /\ entrada.valor = 3

\* C19 as stated: for every count c > 0 the decomposition has exactly
\* ceil(log2(c)) batches.
C19_LotesLog2 ==
    (salida # None /\ entrada.cantidad > 0) =>
        Len(salida[1]) = CeilLog2(entrada.cantidad)

\* C19 amended: for every count c > 0 the decomposition has exactly
\* ceil(log2(c + 1)) batches.
C19_LotesLog2MasUno ==
    (salida # None /\ entrada.cantidad > 0) =>
        Len(salida[1]) = CeilLog2(entrada.cantidad + 1)

C19_Witness ==
    /\ salida # None
    /\ entrada.cantidad = 16
    /\ Len(salida[1]) = 5

\* C20: aplicar_ajustes returns total_consignar_sin_ajustes minus
\* gastos_operativos minus prestamos; excedente is not subtracted.
C20_Ajustes ==
    salida # None =>
        salida[1] = entrada.total_consignar_sin_ajustes
                        - entrada.gastos_operativos - entrada.prestamos

\* Every batch item has been processed by the DP loop and resolver has not
\* yet read the tables.
DpCompleta == pc = "dp" /\ idx > Len(items)

\* <<sum, menudo value>> of every sub-multiset of td.
SumasYMenudos(td, umbral) ==
    {<<Valor(x), ValorMenudo(x, umbral)>> : x \in Factibles(td)}

\* C21: once all batch items are processed, dp[s] differs from NEG exactly
\* when some sub-multiset of the inventory sums to s, and then dp[s] is the
\* largest value in denominations <= umbral_menudo over those sub-multisets;
\* dp[0] is 0 throughout.
C21_TablaDP ==
    /\ dp # <<>> => dp[0] = 0
    /\ DpCompleta =>
          LET pares == SumasYMenudos(todas_denoms, umbral_menudo)
          IN  \A s \in 0..objetivo :
                  IF dp[s] = NEG
                  THEN \A q \in pares : q[1] # s
                  ELSE /\ <<s, dp[s]>> \in pares
                       /\ \A q \in pares : q[1] = s => q[2] <= dp[s]

C21_Witness ==
    /\ pc = "dp"
    /\ idx > Len(items)
    /\ Len(items) >= 3
    /\ \E s \in 1..objetivo : dp[s] = NEG
    /\ \E s \in 1..objetivo :
          /\ dp[s] > 0
          /\ dp[s] < s
          /\ \E x \in Factibles(todas_denoms) :
                Valor(x) = s /\ ValorMenudo(x, umbral_menudo) < dp[s]

\* The sum resolver backtracks from: the target when it is reached, else
\* the closest reachable sum below it.
SumaFinal == IF dp[objetivo] # NEG THEN objetivo ELSE MejorS(dp, objetivo)

\* The prev entries _reconstruir_solucion visits from s, in order.
RECURSIVE Cadena(_, _)
Cadena(p, s) ==
    IF s > 0 /\ p[s] # None THEN <<p[s]>> \o Cadena(p, p[s][1]) ELSE <<>>

\* The menudo contributed by the entries of a chain.
RECURSIVE MenudoCadena(_, _)
MenudoCadena(ch, umbral) ==
    IF ch = <<>> THEN 0
    ELSE (IF Head(ch)[2] <= umbral THEN Head(ch)[2] * Head(ch)[3] ELSE 0)
             + MenudoCadena(Tail(ch), umbral)

\* C22: the chain of prev entries from the backtracked sum down to 0 uses
\* each batch item at most once (batches of equal denomination and size
\* being interchangeable, it holds no more entries of a denomination and
\* size than there are such items), and the menudo accumulated along it
\* equals dp at that sum.
C22_CaminoConsistente ==
    DpCompleta =>
        LET ch == Cadena(prev, SumaFinal)
        IN  /\ \A i \in 1..Len(ch) :
                  Cardinality({j \in 1..Len(ch) :
                                  ch[j][2] = ch[i][2] /\ ch[j][3] = ch[i][3]})
                      <= Cardinality({j \in 1..Len(items) :
                                         items[j].denom = ch[i][2] /\ items[j].k = ch[i][3]})
            /\ MenudoCadena(ch, umbral_menudo) = dp[SumaFinal]

\* C23: at the end of the DP every reachable s > 0 has
\* prev[s] = (s - d*k, d, k) with d*k > 0 and a reachable predecessor, so the
\* walk from any reachable sum strictly descends to 0 without meeting None
\* and the usado it returns is worth the starting sum.
C23_RetrocesoHastaCero ==
    DpCompleta =>
        \A s \in 1..objetivo :
            dp[s] # NEG =>
                /\ prev[s] # None
                /\ prev[s][2] * prev[s][3] > 0
                /\ prev[s][1] = s - prev[s][2] * prev[s][3]
                /\ prev[s][1] >= 0
                /\ dp[prev[s][1]] # NEG
                /\ Cadena(prev, s)[Len(Cadena(prev, s))][1] = 0
                /\ Valor(ReconstruirSolucion(prev, s)) = s

C23_Witness ==
    /\ DpCompleta
    /\ \E s \in 1..objetivo : dp[s] = NEG
    /\ \E s \in 1..objetivo :
          /\ dp[s] # NEG
          /\ Len(Cadena(prev, s)) >= 3
          /\ Cardinality(DOMAIN ReconstruirSolucion(prev, s)) >= 2

\* The sums of the sub-lists of a list of numbers (each element taken at
\* most once).
SumasDeSubconjuntos(partes) ==
    {Suma([i \in 1..Len(partes) |-> IF i \in I THEN partes[i] ELSE 0]) :
        I \in SUBSET (1..Len(partes))}

\* C24: for every count c and every m in 0..c some subset of the batches of
\* descomponer_binario(valor, c) sums to m, and no subset sums to more
\* than c.
C24_CubreMultiplicidades ==
    salida # None =>
        SumasDeSubconjuntos(salida[1]) = 0..entrada.cantidad

C24_Witness ==
    /\ salida = <<<<1, 2, 4, 6>>>>
    /\ entrada.cantidad = 13

\* The dicts with the entries of td in every key order.
Reordenados(td) ==
    {[i \in 1..Len(td) |-> td[f[i]]] :
        f \in {g \in [1..Len(td) -> 1..Len(td)] :
                  \A a, b \in 1..Len(td) : g[a] = g[b] => a = b}}

\* C25: resolver on the same denomination-to-count mapping in another key
\* order, with the same target and threshold, returns the same restante and
\* exacto and a base of the same total value and the same value in
\* denominations <= umbral_menudo.
C25_OrdenIndiferente ==
    Terminado =>
        \A td \in Reordenados(todas_denoms) :
            LET r == ResolverSolo(td, objetivo, umbral_menudo)
            IN  /\ r.restante = restante
                /\ r.exacto = exacto
                /\ Valor(r.conteo_base) = Valor(conteo_base)
                /\ ValorMenudo(r.conteo_base, umbral_menudo)
                       = ValorMenudo(conteo_base, umbral_menudo)

\* ------------------------------------------- CashCalculator: a whole closing
\* The amounts excedente, gastos_operativos and prestamos are drawn from.
Ajustes == 0..1

\* todas_denoms = conteo_billetes: the coins are left out of the merge.
MezclarSinMonedas(a, b) == b

\* {**a, **b}: the keys of a in order, taking b's value where b has the key
\* too, then the keys only b has.
Mezclar(a, b) ==
    [i \in 1..Len(a) |->
        IF a[i][1] \in Keys(b) THEN <<a[i][1], Lookup(b, a[i][1])>> ELSE a[i]]
    \o SelectSeq(b, LAMBDA e : e[1] \notin Keys(a))

\* CashCalculator.calcular_totales
CalcularTotales(conteo_monedas, conteo_billetes) ==
    [total_monedas |-> TotalGeneral(conteo_monedas),
     total_billetes |-> TotalGeneral(conteo_billetes),
     total_general |-> TotalGeneral(conteo_monedas) + TotalGeneral(conteo_billetes)]

\* CashCalculator.calcular_base_y_consignacion, from the two counts.
CalcularBaseDe(conteo_monedas, conteo_billetes, base_objetivo, umbral) ==
    LET td == Mezclar(conteo_monedas, conteo_billetes)
        r == ResolverSolo(td, base_objetivo, umbral)
    IN  BaseInfo(td, base_objetivo, r.conteo_base, r.conteo_consignar,
                 r.restante, r.exacto)

\* CashCalculator.calcular_venta_efectivo_alegra
CalcularVentaEfectivoAlegra(total_general, excedente, total_base, gastos) ==
    total_general - excedente - total_base + gastos

\* The dict procesar_cierre_completo returns (without the formatted texts).
ProcesarCierreCompleto(e) ==
    LET totales == CalcularTotales(e.conteo_monedas, e.conteo_billetes)
        info == CalcularBaseDe(e.conteo_monedas, e.conteo_billetes,
                               e.base_objetivo, e.umbral_menudo)
    IN  [input_coins |-> e.conteo_monedas,
         input_bills |-> e.conteo_billetes,
         totals |-> totales,
         base |-> info,
         consignar |->
             [consignar_monedas |-> info.consignar_monedas,
              consignar_billetes |-> info.consignar_billetes,
              total_consignar_sin_ajustes |-> info.total_consignar_sin_ajustes,
              efectivo_para_consignar_final |->
                  AplicarAjustes(info.total_consignar_sin_ajustes, e.excedente,
                                 e.gastos_operativos, e.prestamos)],
         adjustments |->
             [excedente |-> e.excedente,
              gastos_operativos |-> e.gastos_operativos,
              prestamos |-> e.prestamos,
              venta_efectivo_diaria_alegra |->
                  CalcularVentaEfectivoAlegra(totales.total_general, e.excedente,
                                              info.total_base, e.gastos_operativos)]]

\* A CashCalculator(base_objetivo, umbral_menudo) with the configured
\* denomination lists, about to process a closing.
InitCierre ==
    /\ EnReposo
    /\ entrada \in [base_objetivo : 1..MaxObjetivo,
                    umbral_menudo : Denoms,
                    conteo_monedas : Inventarios({1}),
                    conteo_billetes : Inventarios({2, 3}),
                    excedente : Ajustes,
                    gastos_operativos : Ajustes,
                    prestamos : Ajustes]
    /\ salida = None
    /\ LoginEnReposo

\* procesar_cierre_completo returns.
Cerrar ==
    /\ salida = None
    /\ salida' = <<ProcesarCierreCompleto(entrada)>>
    /\ UNCHANGED <<varsResolver, varsHilos, varsLogin, entrada>>

SpecCierre == InitCierre /\ [][Cerrar]_vars

\* Every counted denomination is one the calculator is configured with.
DenominacionesConfiguradas ==
    /\ \A d \in Keys(entrada.conteo_monedas) :
          \E i \in 1..Len(DENOMINACIONES_MONEDAS) : DENOMINACIONES_MONEDAS[i] = d
    /\ \A d \in Keys(entrada.conteo_billetes) :
          \E i \in 1..Len(DENOMINACIONES_BILLETES) : DENOMINACIONES_BILLETES[i] = d

\* C26: for counts over the configured denominations,
\* base.total_base + consignar.total_consignar_sin_ajustes equals
\* totals.total_general, which is total_monedas + total_billetes.
C26_TotalesConservados ==
    (salida # None /\ DenominacionesConfiguradas) =>
        LET r == salida[1]
        IN  /\ r.base.total_base + r.consignar.total_consignar_sin_ajustes
                   = r.totals.total_general
            /\ r.totals.total_general
                   = r.totals.total_monedas + r.totals.total_billetes

C26_Witness ==
    /\ salida # None
    /\ DenominacionesConfiguradas
    /\ salida[1].totals.total_monedas > 0
    /\ salida[1].totals.total_billetes > 0
    /\ salida[1].base.total_base > 0
    /\ salida[1].consignar.total_consignar_sin_ajustes > 0
    /\ salida[1].base.total_base_monedas > 0
    /\ salida[1].base.total_base_billetes > 0

Abs(x) == IF x < 0 THEN -x ELSE x

\* The registered desfase compared with the sign of the difference flipped:
\* abs(total_desfase + diff_efectivo_raw) < 100.
DesfaseExplicaSignoOpuesto(total_desfase, diff_efectivo_raw) ==
    Abs(total_desfase + diff_efectivo_raw) < 100

\* abs(total_desfase - diff_efectivo_raw) < 100
DesfaseExplica(total_desfase, diff_efectivo_raw) ==
    Abs(total_desfase - diff_efectivo_raw) < 100

\* The cash part of validar_cierre: the figures it reports and whether the
\* cash is validated.  A missing (or empty) cash_result or
\* excedentes_procesados skips the comparison.
ValidarEfectivo(e) ==
    IF e.cash_result # None /\ e.excedentes_procesados # None
    THEN LET excedente_efectivo == e.excedentes_procesados.excedente_efectivo
             efectivo_para_consignar == e.cash_result.efectivo_para_consignar_final
             suma == e.efectivo_alegra + excedente_efectivo - e.gastos_operativos
             raw == suma - efectivo_para_consignar
             explica == /\ e.desfases_procesados # None
                        /\ DesfaseExplica(e.desfases_procesados.total_desfase, raw)
         IN  [suma_efectivo_ajustada |-> suma,
              efectivo_para_consignar |-> efectivo_para_consignar,
              diff_efectivo_raw |-> raw,
              diferencia |-> Abs(raw),
              es_valido |-> Abs(raw) < 100 \/ explica]
    ELSE [suma_efectivo_ajustada |-> 0,
          efectivo_para_consignar |-> 0,
          diff_efectivo_raw |-> 0,
          diferencia |-> 0,
          es_valido |-> TRUE]

\* The desfase_sugerido block of validar_cierre.
DesfaseSugerido(e, ef) ==
    IF /\ ~ef.es_valido
       /\ ef.diferencia >= 100
       /\ (e.desfases_procesados = None \/ e.desfases_procesados.total_desfase = 0)
    THEN [detectado |-> TRUE,
          tipo |-> IF ef.diff_efectivo_raw < 0 THEN "faltante_caja" ELSE "sobrante_caja",
          valor |-> Abs(ef.diff_efectivo_raw)]
    ELSE [detectado |-> FALSE, tipo |-> None, valor |-> None]

\* The dict validar_cierre returns (without the texts).
ValidarCierre(e) ==
    LET ef == ValidarEfectivo(e)
        datafono_alegra == e.debit_card + e.credit_card
        diff_transferencia == Abs(e.transferencia_alegra - e.transferencias_registradas)
        diff_datafono == Abs(datafono_alegra - e.solo_tarjetas)
    IN  [cierre_validado |->
             ef.es_valido /\ diff_transferencia < 100 /\ diff_datafono < 100,
         validation_status |->
             IF ~ef.es_valido THEN "error"
             ELSE IF diff_transferencia >= 100 \/ diff_datafono >= 100 THEN "warning"
             ELSE "success",
         diferencias |->
             [efectivo |->
                  [suma_efectivo_ajustada |-> ef.suma_efectivo_ajustada,
                   efectivo_para_consignar |-> ef.efectivo_para_consignar,
                   diferencia |-> ef.diferencia,
                   es_valido |-> ef.es_valido],
              transferencias |->
                  [diferencia |-> diff_transferencia,
                   es_significativa |-> diff_transferencia >= 100],
              datafono |->
                  [diferencia |-> diff_datafono,
                   es_significativa |-> diff_datafono >= 100]],
         desfase_sugerido |-> DesfaseSugerido(e, ef)]

\* validar_cierre is about to be called: the Alegra totals, the registered
\* totals and the optional cash result, surpluses and desfases, with amounts
\* on both sides of the 100-peso tolerance.
InitValidar ==
    /\ EnReposo
    /\ entrada \in
           [efectivo_alegra : {0, 100, 200},
            transferencia_alegra : {0, 100},
            debit_card : {0, 100},
            credit_card : {0, 50},
            transferencias_registradas : {0, 1, 100},
            solo_tarjetas : {0, 100},
            cash_result :
                {None} \cup [efectivo_para_consignar_final : {0, 1, 100, 199, 300}],
            excedentes_procesados : {None} \cup [excedente_efectivo : {0, 50}],
            gastos_operativos : {0, 50},
            desfases_procesados :
                {None} \cup [total_desfase : {-100, -1, 0, 99, 100, 200}]]
    /\ salida = None
    /\ LoginEnReposo

\* validar_cierre returns.
Validar ==
    /\ salida = None
    /\ salida' = <<ValidarCierre(entrada)>>
    /\ UNCHANGED <<varsResolver, varsHilos, varsLogin, entrada>>

SpecValidar == InitValidar /\ [][Validar]_vars

\* The registered total_desfase (0 when no desfases were passed) and the
\* signed cash difference validar_cierre reports.
DesfaseRegistrado ==
    IF entrada.desfases_procesados = None THEN 0
    ELSE entrada.desfases_procesados.total_desfase

DiferenciaEfectivo ==
    salida[1].diferencias.efectivo.suma_efectivo_ajustada
        - salida[1].diferencias.efectivo.efectivo_para_consignar

\* The cash check fails: the absolute cash difference is >= 100 and the
\* difference is not within 100 of the registered total_desfase.
FallaEfectivo ==
    /\ Abs(DiferenciaEfectivo) >= 100
    /\ ~(Abs(DesfaseRegistrado - DiferenciaEfectivo) < 100)

EntradasExcedente ==
    [tipo : {"efectivo", "datafono", "otro"}, subtipo : {None}, valor : 0..2]
    \cup [tipo : {"qr_transferencias"},
          subtipo : {"nequi", "daviplata", "qr", ""}, valor : 0..2]

\* The lists of at most n surplus entries.
RECURSIVE ListasDeExcedentes(_)
ListasDeExcedentes(n) ==
    IF n = 0 THEN {<<>>}
    ELSE LET cortas == ListasDeExcedentes(n - 1)
         IN  cortas \cup {Append(l, x) : l \in {c \in cortas : Len(c) = n - 1},
                                         x \in EntradasExcedente}

\* One iteration of the loop of procesar_excedentes on the entry exc.
AcumularExcedente(totales, exc) ==
    IF exc.valor > 0
    THEN LET t == [totales EXCEPT !.total_excedente = @ + exc.valor]
         IN  IF exc.tipo = "efectivo"
             THEN [t EXCEPT !.excedente_efectivo = @ + exc.valor,
                            !.excedentes_detalle =
                                Append(@, [tipo |-> "Efectivo", valor |-> exc.valor])]
             ELSE IF exc.tipo = "datafono"
             THEN [t EXCEPT !.excedente_datafono = @ + exc.valor,
                            !.excedentes_detalle =
                                Append(@, [tipo |-> "Datafono", valor |-> exc.valor])]
             ELSE IF exc.tipo = "qr_transferencias"
             THEN IF exc.subtipo = "nequi"
                  THEN [t EXCEPT !.excedente_nequi = @ + exc.valor,
                                 !.excedentes_detalle =
                                     Append(@, [tipo |-> "Transferencia",
                                                subtipo |-> "Nequi",
                                                valor |-> exc.valor])]
                  ELSE IF exc.subtipo = "daviplata"
                  THEN [t EXCEPT !.excedente_daviplata = @ + exc.valor,
                                 !.excedentes_detalle =
                                     Append(@, [tipo |-> "Transferencia",
                                                subtipo |-> "Daviplata",
                                                valor |-> exc.valor])]
                  ELSE IF exc.subtipo = "qr"
                  THEN [t EXCEPT !.excedente_qr = @ + exc.valor,
                                 !.excedentes_detalle =
                                     Append(@, [tipo |-> "Transferencia",
                                                subtipo |-> "QR",
                                                valor |-> exc.valor])]
                  ELSE t
             ELSE t
    ELSE totales

\* procesar_excedentes: the loop over excedentes_list from entry i on.
RECURSIVE ProcesarExcedentesDesde(_, _, _)
ProcesarExcedentesDesde(totales, lista, i) ==
    IF i > Len(lista) THEN totales
    ELSE ProcesarExcedentesDesde(AcumularExcedente(totales, lista[i]), lista, i + 1)

ProcesarExcedentes(excedentes_list) ==
    ProcesarExcedentesDesde(
        [total_excedente |-> 0, excedente_efectivo |-> 0, excedente_datafono |-> 0,
         excedente_nequi |-> 0, excedente_daviplata |-> 0, excedente_qr |-> 0,
         excedentes_detalle |-> <<>>],
        excedentes_list, 1)

\* procesar_excedentes is about to be called on a list of entries.
InitExcedentes ==
    /\ EnReposo
    /\ entrada \in ListasDeExcedentes(MaxExcedentes)
    /\ salida = None
    /\ LoginEnReposo

\* procesar_excedentes returns.
Excedentes ==
    /\ salida = None
    /\ salida' = <<ProcesarExcedentes(entrada)>>
    /\ UNCHANGED <<varsResolver, varsHilos, varsLogin, entrada>>

SpecExcedentes == InitExcedentes /\ [][Excedentes]_vars

\* C29: total_excedente equals excedente_efectivo + excedente_datafono +
\* excedente_nequi + excedente_daviplata + excedente_qr, and
\* excedentes_detalle has one entry per input entry counted in
\* total_excedente.
C29_ExcedentesSuman ==
    salida # None =>
        LET r == salida[1]
        IN  /\ r.total_excedente =
                   r.excedente_efectivo + r.excedente_datafono + r.excedente_nequi
                       + r.excedente_daviplata + r.excedente_qr
            /\ Len(r.excedentes_detalle) =
                   Cardinality({i \in 1..Len(entrada) : entrada[i].valor > 0})

\* --------------------------------------------------------------- auth.login
\* Config.MAX_LOGIN_ATTEMPTS and Config.LOCKOUT_TIME_MINUTES (defaults).
MAX_LOGIN_ATTEMPTS == 5

LOCKOUT_TIME_MINUTES == 15

\* The one email the requests are for.
VALID_EMAIL == "ventaspuertocarreno@gmail.com"

\* The server runs threaded: two requests can be in their handlers at once.
Clientes == {"a", "b"}

\* del d[k] and d[k] = v on a dict held as a function.
Quitar(d, k) == [e \in DOMAIN d \ {k} |-> d[e]]

Poner(d, k, v) == [e \in DOMAIN d \cup {k} |-> IF e = k THEN v ELSE d[e]]

\* The lock of email is in force now.
Bloqueada(email) == email \in DOMAIN locked_until /\ ahora < locked_until[email]

\* A request not yet made (status code 0: no response so far), and the
\* record of an answered one.
SinPeticion ==
    [pc |-> "idle", correcta |-> FALSE, respuesta |-> 0, token |-> FALSE,
     bloqueada |-> FALSE, cambio |-> FALSE, limpio |-> FALSE]

Respondida(codigo, tok, bloq, fa, lu) ==
    [pc |-> "idle", correcta |-> FALSE, respuesta |-> codigo, token |-> tok,
     bloqueada |-> bloq,
     cambio |-> fa # failed_attempts,
     limpio |-> VALID_EMAIL \notin DOMAIN fa /\ VALID_EMAIL \notin DOMAIN lu]

\* The module is loaded and no request has been made.
InitLogin ==
    /\ EnReposo
    /\ entrada = None
    /\ salida = None
    /\ failed_attempts = <<>>
    /\ locked_until = <<>>
    /\ ahora = 0
    /\ peticiones = [c \in Clientes |-> SinPeticion]

\* A minute passes.
Tic ==
    /\ ahora < MaxTiempo
    /\ ahora' = ahora + 1
    /\ UNCHANGED <<varsResolver, varsHilos, varsLlamada, failed_attempts,
                   locked_until, peticiones>>

\* Client c posts a well-formed login for VALID_EMAIL, with the right or a
\* wrong password; the handler runs up to and including is_account_locked:
\* a lock in force answers 403, an expired lock is removed with the counter.
Recibir(c) ==
    /\ peticiones[c].pc = "idle"
    /\ \E correcta \in BOOLEAN :
          IF VALID_EMAIL \notin DOMAIN locked_until
          THEN /\ peticiones' = [peticiones EXCEPT
                                    ![c] = [SinPeticion EXCEPT !.pc = "verificada",
                                                               !.correcta = correcta]]
               /\ UNCHANGED <<failed_attempts, locked_until>>
          ELSE IF ahora < locked_until[VALID_EMAIL]
          THEN /\ peticiones' = [peticiones EXCEPT
                                    ![c] = Respondida(403, FALSE, TRUE,
                                                      failed_attempts, locked_until)]
               /\ UNCHANGED <<failed_attempts, locked_until>>
          ELSE /\ locked_until' = Quitar(locked_until, VALID_EMAIL)
               /\ failed_attempts' = Quitar(failed_attempts, VALID_EMAIL)
               /\ peticiones' = [peticiones EXCEPT
                                    ![c] = [SinPeticion EXCEPT !.pc = "verificada",
                                                               !.correcta = correcta]]
    /\ UNCHANGED <<varsResolver, varsHilos, varsLlamada, ahora>>

\* The handler of c goes on from the credential comparison to its response:
\* a wrong password is counted and locks the account at MAX_LOGIN_ATTEMPTS,
\* the right one resets the counter and the lock and gets a token.
Responder(c) ==
    /\ peticiones[c].pc = "verificada"
    /\ IF ~peticiones[c].correcta
       THEN LET attempts == IF VALID_EMAIL \in DOMAIN failed_attempts
                            THEN failed_attempts[VALID_EMAIL] + 1 ELSE 1
                fa == Poner(failed_attempts, VALID_EMAIL, attempts)
            IN  /\ failed_attempts' = fa
                /\ IF attempts >= MAX_LOGIN_ATTEMPTS
                   THEN /\ locked_until' = Poner(locked_until, VALID_EMAIL,
                                                 ahora + LOCKOUT_TIME_MINUTES)
                        /\ peticiones' =
                               [peticiones EXCEPT
                                   ![c] = Respondida(403, FALSE, Bloqueada(VALID_EMAIL),
                                                     fa, locked_until')]
                   ELSE /\ UNCHANGED locked_until
                        /\ peticiones' =
                               [peticiones EXCEPT
                                   ![c] = Respondida(401, FALSE, Bloqueada(VALID_EMAIL),
                                                     fa, locked_until)]
       ELSE /\ failed_attempts' = Quitar(failed_attempts, VALID_EMAIL)
            /\ locked_until' = Quitar(locked_until, VALID_EMAIL)
            /\ peticiones' =
                   [peticiones EXCEPT
                       ![c] = Respondida(200, TRUE, Bloqueada(VALID_EMAIL),
                                         failed_attempts', locked_until')]
    /\ UNCHANGED <<varsResolver, varsHilos, varsLlamada, ahora>>

NextLogin == Tic \/ \E c \in Clientes : Recibir(c) \/ Responder(c)

SpecLogin == InitLogin /\ [][NextLogin]_vars

\* C30: once the failed attempts reach MAX_LOGIN_ATTEMPTS the account is
\* locked; a request answered while the lock is in force gets 403, no token
\* and leaves the counter alone, right credentials included; the counter
\* never exceeds MAX_LOGIN_ATTEMPTS; a successful login leaves the counter
\* and the lock cleared.
C30_BloqueoDeLogin ==
    /\ \A e \in DOMAIN failed_attempts :
          /\ failed_attempts[e] <= MAX_LOGIN_ATTEMPTS
          /\ failed_attempts[e] >= MAX_LOGIN_ATTEMPTS => e \in DOMAIN locked_until
    /\ \A c \in DOMAIN peticiones :
          /\ (peticiones[c].respuesta # 0 /\ peticiones[c].bloqueada) =>
                /\ peticiones[c].respuesta = 403
                /\ ~peticiones[c].token
                /\ ~peticiones[c].cambio
          /\ peticiones[c].respuesta = 200 => peticiones[c].limpio

====
